---- MODULE Spec2Model ----
(***************************************************************************)
(* Model of packages/cli/utils/requests/requests.go: the request pipeline  *)
(* doRequest (timeout scope, attempt loop, retry classification, linear    *)
(* backoff, response handling, debug logging) and its helpers.             *)
(*                                                                         *)
(* Every caller of Get/Post/... runs its own copy of doRequest; the        *)
(* variables are functions over Callers, one component per running call.   *)
(* Durations are in milliseconds.                                          *)
(***************************************************************************)
EXTENDS Integers, Sequences, FiniteSets, TLC

\* ------------------------------------------------------------------ bounds

\* Largest options.Retries a caller passes (the smallest is -1).
MaxRetriesBound == 2

\* Goroutines that may call the package.
Callers == {"c1", "c2"}

\* ------------------------------------------------------- program constants

\* backoff: time.Duration(attempt+1) * 300 * time.Millisecond
BackoffUnit == 300

\* doRequest: timeout = 10 * time.Second when options.Timeout is zero.
DefaultTimeout == 10000

\* ------------------------------------------------------------ input values

\* Methods handed to doRequest: two of the verbs of the public wrappers and
\* a token net/http rejects.
Methods == {"GET", "POST", "BAD METHOD"}

\* What http.NewRequestWithContext accepts as a method.
ValidMethods == {"GET", "POST", "PUT", "PATCH", "DELETE"}

\* A raw URL string: its part before the '?' and its query, a sequence of
\* key=value pairs whose values are still percent-encoded.
URL(addr, rawQuery) == [addr |-> addr, rawQuery |-> rawQuery]

\* An address url.Parse accepts and one it rejects (missing ']' in host).
GoodAddr == "https://status.example/api/v2/status.json"

BadAddr == "http://[::1"

ParseableAddrs == {GoodAddr}

NoRawURL == URL("nil", << >>)

\* The URLs of the pipeline workload.
RawURLs == {URL(GoodAddr, << >>), URL(BadAddr, << >>)}

ParseableURLs == {u \in RawURLs : u.addr \in ParseableAddrs}

\* Query keys, in the byte order url.Values.Encode sorts them.
SortedQueryKeys == <<"a", "b">>

QueryKeys == {"a", "b"}

Pair(k, v) == [k |-> k, v |-> v]

\* Queries of base URLs: none, plain pairs, a repeated key, a value encoded
\* with %20, and a pair whose value is not a valid percent-encoding.
BaseQueries ==
    { << >>,
      <<Pair("b", "1")>>,
      <<Pair("b", "1"), Pair("a", "2"), Pair("b", "a%20b")>>,
      <<Pair("a", "1"), Pair("b", "%zz")>> }

QueryURLs == {URL(GoodAddr, q) : q \in BaseQueries}

\* options.Query: a nil map or a map of keys to values.
QueryMap(kv) == [nil |-> FALSE, kv |-> kv]

NoQuery == [nil |-> TRUE, kv |-> << >>]

QueryValues ==
    { NoQuery,
      QueryMap(<< >>),
      QueryMap([k \in {"a"} |-> "a b"]),
      QueryMap([k \in {"a", "b"} |-> IF k = "a" THEN "1" ELSE "2"]) }

\* options.Header: a nil map or a map of keys, as the caller spelled them,
\* to lists of values.
HeaderMap(kv) == [nil |-> FALSE, kv |-> kv]

NoHeader == [nil |-> TRUE, kv |-> << >>]

HEADER_CONTENT_TYPE == "Content-Type"

CONTENT_TYPE_JSON == "application/json"

HeaderKeys == {"Content-Type", "content-type", "X-Tag", "x-tag"}

\* The values a caller gives each key it sets.
CallerValues ==
    [k \in HeaderKeys |->
        CASE k = "Content-Type" -> <<"text/plain">>
          [] k = "content-type" -> <<"application/xml">>
          [] k = "X-Tag" -> <<"1", "2">>
          [] k = "x-tag" -> <<"3">>]

HeaderValues ==
    {NoHeader} \cup {HeaderMap([k \in K |-> CallerValues[k]]) : K \in SUBSET HeaderKeys}

\* options.Body: nil, a value json.Marshal encodes, a value it rejects
\* (a channel).
NilPayload == "nil"

Payloads == {NilPayload, "struct", "chan"}

Marshalable == {"struct"}

RetryValues == -1 .. MaxRetriesBound

\* options.Timeout: unset, or five seconds.
TimeoutValues == {0, 5000}

\* How long an attempt that reaches the network may take: a second, or until
\* the timeout scope's deadline (left) passes.
AttemptDurations(left) == {1000, left}

\* Status codes a server may answer with, around the 5xx boundaries.
Statuses == {200, 499, 500, 503, 599, 600}

\* Contents of a response body.
ResponseBodies == {"b1", "b2"}

\* A nil []byte.
NilBody == "nil"

\* ------------------------------------------------------------------ errors

\* A nil error.
NoErr == [type |-> "nil"]

\* *url.Error: what url.Parse and http.Client.Do return.  It has Timeout()
\* and Temporary() methods, so it satisfies the net.Error interface.
UrlError(op) == [type |-> "*url.Error", op |-> op]

\* json.Marshal's error for an unsupported type.
MarshalError == [type |-> "*json.UnsupportedTypeError"]

\* http.NewRequestWithContext: fmt.Errorf("net/http: invalid method %q").
InvalidMethodError == [type |-> "*errors.errorString", msg |-> "invalid method"]

\* io.ReadAll's error when the body stream breaks.
ReadError == [type |-> "read error"]

\* fmt.Errorf("server error: %v", resp.Status)
ServerError(status) == [type |-> "*errors.errorString", msg |-> "server error", status |-> status]

\* fmt.Errorf("request failed after retries: %w", lastErr)
FailedAfterRetries(lastErr) ==
    [type |-> "*fmt.wrapError", msg |-> "request failed after retries", wraps |-> lastErr]

\* errors.As(err, &netErr) with netErr of type net.Error.
IsNetError(err) == err.type = "*url.Error"

\* ------------------------------------------------------------ pure helpers

NoURL == URL("nil", << >>)

\* A nil io.Reader.
NoReader == [data |-> "nil", off |-> 0]

NoReq == [method |-> "nil", url |-> NoURL, header |-> << >>, body |-> NoReader]

NoResp == [StatusCode |-> 0, Body |-> NilBody]

\* url.QueryUnescape: the decoded value, or "error" for a malformed one.
QueryUnescape(v) ==
    CASE v = "a+b" -> "a b"
      [] v = "a%20b" -> "a b"
      [] v = "%zz" -> "error"
      [] OTHER -> v

\* url.QueryEscape
QueryEscape(v) == IF v = "a b" THEN "a+b" ELSE v

\* u.Query(): url.ParseQuery of the raw query with its error dropped; the
\* pairs that do not decode are left out.  A map from keys to value lists.
RECURSIVE ParseQuery(_)
ParseQuery(rawQuery) ==
    IF rawQuery = << >> THEN << >>
    ELSE LET n == Len(rawQuery)
             rest == ParseQuery(SubSeq(rawQuery, 1, n - 1))
             p == rawQuery[n]
             v == QueryUnescape(p.v)
         IN IF v = "error" THEN rest
            ELSE [k \in DOMAIN rest \cup {p.k} |->
                    IF k = p.k
                    THEN (IF k \in DOMAIN rest THEN rest[k] ELSE << >>) \o <<v>>
                    ELSE rest[k]]

\* q.Set(k, v) for every k, v of the query map.
SetAll(q, kv) ==
    [k \in DOMAIN q \cup DOMAIN kv |-> IF k \in DOMAIN kv THEN <<kv[k]>> ELSE q[k]]

\* q.Encode(): the pairs of keys[1..n] in that order, values escaped.
RECURSIVE EncodeKeys(_, _, _)
EncodeKeys(q, keys, n) ==
    IF n = 0 THEN << >>
    ELSE EncodeKeys(q, keys, n - 1) \o
         (IF keys[n] \in DOMAIN q
          THEN [i \in 1 .. Len(q[keys[n]]) |-> Pair(keys[n], QueryEscape(q[keys[n]][i]))]
          ELSE << >>)

Encode(q) == EncodeKeys(q, SortedQueryKeys, Len(SortedQueryKeys))

\* buildURL: url.Parse, then the query merge.
buildURL(rawURL, query) ==
    IF rawURL.addr \notin ParseableAddrs
    THEN [u |-> NoURL, err |-> UrlError("parse")]
    ELSE IF query.nil
    THEN [u |-> rawURL, err |-> NoErr]
    ELSE [u |-> URL(rawURL.addr, Encode(SetAll(ParseQuery(rawURL.rawQuery), query.kv))),
          err |-> NoErr]

\* json.Marshal of a value it can encode.
jsonMarshal(body) == "{\"name\":\"" \o body \o "\"}"

\* buildBody: nil for a nil body, else a fresh buffer over the JSON encoding,
\* or the marshal error.
buildBody(body) ==
    IF body = NilPayload
    THEN [body |-> NoReader, err |-> NoErr]
    ELSE IF body \in Marshalable
         THEN [body |-> [data |-> jsonMarshal(body), off |-> 0], err |-> NoErr]
         ELSE [body |-> NoReader, err |-> MarshalError]

\* textproto.CanonicalMIMEHeaderKey
CanonicalKey(k) ==
    CASE k = "content-type" -> "Content-Type"
      [] k = "x-tag" -> "X-Tag"
      [] OTHER -> k

\* h.Add(k, v)
HeaderAdd(h, k, v) ==
    LET ck == CanonicalKey(k) IN
    [x \in DOMAIN h \cup {ck} |->
        IF x = ck THEN (IF ck \in DOMAIN h THEN h[ck] ELSE << >>) \o <<v>> ELSE h[x]]

\* h.Set(k, v)
HeaderSet(h, k, v) ==
    LET ck == CanonicalKey(k) IN
    [x \in DOMAIN h \cup {ck} |-> IF x = ck THEN <<v>> ELSE h[x]]

\* for _, v := range values { h.Add(k, v) }, the first n values.
RECURSIVE AddValues(_, _, _, _)
AddValues(h, k, values, n) ==
    IF n = 0 THEN h
    ELSE HeaderAdd(AddValues(h, k, values, n - 1), k, values[n])

\* for k, values := range opt.Header, visiting the keys as order lists them
\* (the first n of them).
RECURSIVE CopyHeaders(_, _, _)
CopyHeaders(kv, order, n) ==
    IF n = 0 THEN << >>
    ELSE AddValues(CopyHeaders(kv, order, n - 1), order[n], kv[order[n]],
                   Len(kv[order[n]]))

\* The orders in which a range over a map with key set K may visit it.
RangeOrders(K) ==
    {o \in [1 .. Cardinality(K) -> K] : \A i, j \in DOMAIN o : o[i] = o[j] => i = j}

\* createRequest with the JSON Content-Type added after the caller's values
\* instead of replacing them.
createRequest_AddContentType(method, u, body, opt, order) ==
    IF method \notin ValidMethods
    THEN [req |-> NoReq, err |-> InvalidMethodError]
    ELSE LET copied == CopyHeaders(opt.Header.kv, order, Len(order))
             header == IF opt.Body # NilPayload
                       THEN HeaderAdd(copied, HEADER_CONTENT_TYPE, CONTENT_TYPE_JSON)
                       ELSE copied
         IN [req |-> [method |-> method, url |-> u, header |-> header, body |-> body],
             err |-> NoErr]

\* createRequest: http.NewRequestWithContext, then the caller's headers in
\* the order the range visits them, then the forced JSON Content-Type.
createRequest(method, u, body, opt, order) ==
    IF method \notin ValidMethods
    THEN [req |-> NoReq, err |-> InvalidMethodError]
    ELSE LET copied == CopyHeaders(opt.Header.kv, order, Len(order))
             header == IF opt.Body # NilPayload
                       THEN HeaderSet(copied, HEADER_CONTENT_TYPE, CONTENT_TYPE_JSON)
                       ELSE copied
         IN [req |-> [method |-> method, url |-> u, header |-> header, body |-> body],
             err |-> NoErr]

\* What goes on the wire for a request: the body is what is still unread in
\* its reader.
Sent(req) ==
    [method |-> req.method, url |-> req.url, header |-> req.header,
     body |-> IF req.body.off = 0 THEN req.body.data ELSE ""]

NoSent == Sent(NoReq)

\* client.Do under a timeout scope with `left` until its deadline: what the
\* network may answer and how long it took.  Either a *url.Error and no
\* response (at once, or when the deadline passes), or a response with some
\* status and body.
clientDo(req, left) ==
    {[resp |-> NoResp, err |-> UrlError(req.method), sent |-> Sent(req), took |-> d] :
        d \in AttemptDurations(left)}
    \cup {[resp |-> [StatusCode |-> s, Body |-> b], err |-> NoErr, sent |-> Sent(req),
            took |-> d] :
             s \in Statuses, b \in ResponseBodies, d \in AttemptDurations(left) \ {left}}

\* An attempt that ends before the request is sent.
NotSent(err) == [resp |-> NoResp, err |-> err, sent |-> NoSent, took |-> 0]

\* attemptRequest: the results one attempt may have.
attemptRequest(method, rawURL, options, left) ==
    LET ur == buildURL(rawURL, options.Query) IN
    IF ur.err # NoErr THEN {NotSent(ur.err)}
    ELSE LET b == buildBody(options.Body) IN
    IF b.err # NoErr THEN {NotSent(b.err)}
    ELSE UNION {
        LET rq == createRequest(method, ur.u, b.body, options, order) IN
        IF rq.err # NoErr THEN {NotSent(rq.err)}
        ELSE clientDo(rq.req, left) :
        order \in RangeOrders(DOMAIN options.Header.kv)}

\* shouldRetry with the error class test dropped: no error is retried.
shouldRetry_NoErrorRetry(err, status, attempt, maxRetries) ==
    IF attempt >= maxRetries THEN FALSE
    ELSE IF err # NoErr THEN FALSE
    ELSE status >= 500 /\ status <= 599

\* shouldRetry with the upper status bound exclusive: 599 is not retried.
shouldRetry_Below599(err, status, attempt, maxRetries) ==
    IF attempt >= maxRetries THEN FALSE
    ELSE IF err # NoErr THEN IsNetError(err)
    ELSE status >= 500 /\ status < 599

\* shouldRetry with client errors retried as well.
shouldRetry_From400(err, status, attempt, maxRetries) ==
    IF attempt >= maxRetries THEN FALSE
    ELSE IF err # NoErr THEN IsNetError(err)
    ELSE status >= 400 /\ status <= 599

\* shouldRetry with every error retried, whatever its class.
shouldRetry_AnyError(err, status, attempt, maxRetries) ==
    IF attempt >= maxRetries THEN FALSE
    ELSE IF err # NoErr THEN TRUE
    ELSE status >= 500 /\ status <= 599

\* shouldRetry with the budget test off by one: the last attempt is retried too.
shouldRetry_ThroughLast(err, status, attempt, maxRetries) ==
    IF attempt > maxRetries THEN FALSE
    ELSE IF err # NoErr THEN IsNetError(err)
    ELSE status >= 500 /\ status <= 599

\* shouldRetry(err, status, attempt, maxRetries)
shouldRetry(err, status, attempt, maxRetries) ==
    IF attempt >= maxRetries THEN FALSE
    ELSE IF err # NoErr THEN IsNetError(err)
    ELSE status >= 500 /\ status <= 599

\* backoff scaled by attempt instead of attempt+1.
backoff_FromZero(attempt) == attempt * BackoffUnit

\* backoff without the scaling: the same wait every time.
backoff_Fixed(attempt) == BackoffUnit

\* backoff: the duration slept before the next attempt.
backoff(attempt) == (attempt + 1) * BackoffUnit

\* handleResponse: the (body, status, err) results reading a response may
\* have; the body is closed in every case.
handleResponse(resp) ==
    IF resp = NoResp
    THEN {[body |-> NilBody, status |-> 0, err |-> [type |-> "nil response"]]}
    ELSE {[body |-> resp.Body, status |-> resp.StatusCode, err |-> NoErr],
          [body |-> NilBody, status |-> resp.StatusCode, err |-> ReadError]}

\* logResponse: the records written to the log.
logResponse(resp, body, options) ==
    IF ~options.Debug \/ resp = NoResp
    THEN << >>
    ELSE << [status |-> resp.StatusCode, body |-> body] >>

\* ------------------------------------------------------------------- state

VARIABLES
    active,    \* the callers that run in this specification
    workload,  \* the inputs callers pass in this specification
    pc,        \* where each call stands
    method,    \* doRequest's arguments
    rawURL,
    options,
    attempt,   \* the loop counter
    lastErr,
    timeout,   \* the duration of each attempt's timeout scope
    ctx,       \* the timeout scope of the current attempt
    ctxLeft,   \* the time left until that scope's deadline
    resp,      \* locals of the loop body
    err,
    respOpen,  \* whether resp.Body is open
    body,
    status,
    readErr,
    waits,     \* the durations slept so far, in order
    log,       \* the outcome of each attempt so far, in order
    debugOut,  \* what logResponse wrote
    ret        \* the values returned

args == <<method, rawURL, options, timeout>>
scope == <<ctx, ctxLeft>>
locals == <<resp, err, body, status, readErr>>
env == <<active, workload>>
vars == <<active, workload, pc, method, rawURL, options, attempt, lastErr, timeout,
          ctx, ctxLeft, resp, err, respOpen, body, status, readErr, waits, log,
          debugOut, ret>>

NoOptions ==
    [Header |-> NoHeader, Query |-> NoQuery, Body |-> NilPayload, Timeout |-> 0,
     Retries |-> 0, Debug |-> FALSE]

OptionValues ==
    [Header : {NoHeader}, Query : {NoQuery}, Body : Payloads, Timeout : TimeoutValues,
     Retries : RetryValues, Debug : BOOLEAN]

\* Calls that vary what the request is built from: the caller's headers with
\* and without a body, and the query map over base URLs with a query.
RequestInputs ==
    [method : {"POST"}, rawURL : {URL(GoodAddr, << >>)},
     options : [Header : HeaderValues, Query : {NoQuery}, Body : {NilPayload, "struct"},
                Timeout : {0}, Retries : {-1, 1}, Debug : {FALSE}]]
    \cup
    [method : {"GET"}, rawURL : QueryURLs,
     options : [Header : {NoHeader}, Query : QueryValues, Body : {NilPayload},
                Timeout : {0}, Retries : {-1, 1}, Debug : {FALSE}]]

\* Calls two goroutines make at the same time.
ConcurrentInputs ==
    [method : {"GET"}, rawURL : {URL(GoodAddr, << >>)},
     options : [Header : {NoHeader}, Query : {NoQuery}, Body : {NilPayload},
                Timeout : {0}, Retries : {-1, 1}, Debug : BOOLEAN]]

\* The calls of each workload.
Inputs(w) ==
    CASE w = "pipeline" -> [method : Methods, rawURL : RawURLs, options : OptionValues]
      [] w = "request" -> RequestInputs
      [] w = "concurrent" -> ConcurrentInputs

NoRet == [body |-> NilBody, err |-> NoErr]

InitCall ==
    /\ pc = [c \in Callers |-> "idle"]
    /\ method = [c \in Callers |-> "nil"]
    /\ rawURL = [c \in Callers |-> NoRawURL]
    /\ options = [c \in Callers |-> NoOptions]
    /\ attempt = [c \in Callers |-> 0]
    /\ lastErr = [c \in Callers |-> NoErr]
    /\ timeout = [c \in Callers |-> 0]
    /\ ctx = [c \in Callers |-> "none"]
    /\ ctxLeft = [c \in Callers |-> 0]
    /\ resp = [c \in Callers |-> NoResp]
    /\ err = [c \in Callers |-> NoErr]
    /\ respOpen = [c \in Callers |-> FALSE]
    /\ body = [c \in Callers |-> NilBody]
    /\ status = [c \in Callers |-> 0]
    /\ readErr = [c \in Callers |-> NoErr]
    /\ waits = [c \in Callers |-> << >>]
    /\ log = [c \in Callers |-> << >>]
    /\ debugOut = [c \in Callers |-> << >>]
    /\ ret = [c \in Callers |-> NoRet]

Init ==
    /\ active = {"c1"}
    /\ workload = "pipeline"
    /\ InitCall

\* ----------------------------------------------------------------- actions

\* Get/Post/...: a caller enters doRequest; maxRetries is options.Retries,
\* timeout is options.Timeout or the default, lastErr is nil.
Call(c) ==
    /\ c \in active
    /\ pc[c] = "idle"
    /\ \E in \in Inputs(workload) :
         /\ method' = [method EXCEPT ![c] = in.method]
         /\ rawURL' = [rawURL EXCEPT ![c] = in.rawURL]
         /\ options' = [options EXCEPT ![c] = in.options]
         /\ timeout' = [timeout EXCEPT ![c] =
                          IF in.options.Timeout = 0 THEN DefaultTimeout
                          ELSE in.options.Timeout]
    /\ pc' = [pc EXCEPT ![c] = "loop"]
    /\ UNCHANGED <<env, attempt, lastErr, scope, locals, respOpen, waits, log,
                   debugOut, ret>>

\* LoopEnter of a loop that tests its condition after the body: the first
\* iteration always runs.
LoopEnter_AtLeastOnce(c) ==
    /\ pc[c] = "loop"
    /\ attempt[c] = 0 \/ attempt[c] <= options[c].Retries
    /\ ctx' = [ctx EXCEPT ![c] = "live"]
    /\ ctxLeft' = [ctxLeft EXCEPT ![c] = timeout[c]]
    /\ resp' = [resp EXCEPT ![c] = NoResp]
    /\ err' = [err EXCEPT ![c] = NoErr]
    /\ body' = [body EXCEPT ![c] = NilBody]
    /\ status' = [status EXCEPT ![c] = 0]
    /\ readErr' = [readErr EXCEPT ![c] = NoErr]
    /\ pc' = [pc EXCEPT ![c] = "attempt"]
    /\ UNCHANGED <<env, args, attempt, lastErr, respOpen, waits, log, debugOut, ret>>

\* LoopEnter with the loop condition off by one: attempt <= maxRetries + 1.
LoopEnter_OneMore(c) ==
    /\ pc[c] = "loop"
    /\ attempt[c] <= options[c].Retries + 1
    /\ ctx' = [ctx EXCEPT ![c] = "live"]
    /\ ctxLeft' = [ctxLeft EXCEPT ![c] = timeout[c]]
    /\ resp' = [resp EXCEPT ![c] = NoResp]
    /\ err' = [err EXCEPT ![c] = NoErr]
    /\ body' = [body EXCEPT ![c] = NilBody]
    /\ status' = [status EXCEPT ![c] = 0]
    /\ readErr' = [readErr EXCEPT ![c] = NoErr]
    /\ pc' = [pc EXCEPT ![c] = "attempt"]
    /\ UNCHANGED <<env, args, attempt, lastErr, respOpen, waits, log, debugOut, ret>>

\* for attempt <= maxRetries: the body is entered, with a fresh timeout
\* scope and fresh locals.
LoopEnter(c) ==
    /\ pc[c] = "loop"
    /\ attempt[c] <= options[c].Retries
    /\ ctx' = [ctx EXCEPT ![c] = "live"]
    /\ ctxLeft' = [ctxLeft EXCEPT ![c] = timeout[c]]
    /\ resp' = [resp EXCEPT ![c] = NoResp]
    /\ err' = [err EXCEPT ![c] = NoErr]
    /\ body' = [body EXCEPT ![c] = NilBody]
    /\ status' = [status EXCEPT ![c] = 0]
    /\ readErr' = [readErr EXCEPT ![c] = NoErr]
    /\ pc' = [pc EXCEPT ![c] = "attempt"]
    /\ UNCHANGED <<env, args, attempt, lastErr, respOpen, waits, log, debugOut, ret>>

\* The loop condition fails: return nil, "request failed after retries".
LoopExit(c) ==
    /\ pc[c] = "loop"
    /\ attempt[c] > options[c].Retries
    /\ ret' = [ret EXCEPT ![c] = [body |-> NilBody, err |-> FailedAfterRetries(lastErr[c])]]
    /\ pc' = [pc EXCEPT ![c] = "done"]
    /\ UNCHANGED <<env, args, attempt, lastErr, scope, locals, respOpen, waits, log,
                   debugOut>>

\* resp, err := attemptRequest(method, rawURL, options, ctx)
AttemptRequest(c) ==
    /\ pc[c] = "attempt"
    /\ \E r \in attemptRequest(method[c], rawURL[c], options[c], ctxLeft[c]) :
         /\ resp' = [resp EXCEPT ![c] = r.resp]
         /\ err' = [err EXCEPT ![c] = r.err]
         /\ respOpen' = [respOpen EXCEPT ![c] = (r.err = NoErr)]
         /\ ctxLeft' = [ctxLeft EXCEPT ![c] = @ - r.took]
         /\ log' = [log EXCEPT ![c] =
                      Append(@, [err |-> r.err, status |-> r.resp.StatusCode,
                                 sent |-> r.sent])]
    /\ pc' = [pc EXCEPT ![c] = "cancel"]
    /\ UNCHANGED <<env, args, attempt, lastErr, ctx, body, status, readErr, waits,
                   debugOut, ret>>

\* Cancel as `defer cancel()`: the scope is not released here.
Cancel_Deferred(c) ==
    /\ pc[c] = "cancel"
    /\ pc' = [pc EXCEPT ![c] = "check"]
    /\ UNCHANGED <<env, args, attempt, lastErr, scope, locals, respOpen, waits, log,
                   debugOut, ret>>

\* cancel()
Cancel(c) ==
    /\ pc[c] = "cancel"
    /\ ctx' = [ctx EXCEPT ![c] = "cancelled"]
    /\ ctxLeft' = [ctxLeft EXCEPT ![c] = 0]
    /\ pc' = [pc EXCEPT ![c] = "check"]
    /\ UNCHANGED <<env, args, attempt, lastErr, locals, respOpen, waits, log,
                   debugOut, ret>>

\* OnError with the sleep taken before the retry decision: a backoff also
\* precedes the return of an error that is not retried.
OnError_BackoffFirst(c) ==
    /\ pc[c] = "check"
    /\ err[c] # NoErr
    /\ lastErr' = [lastErr EXCEPT ![c] = err[c]]
    /\ IF shouldRetry(err[c], 0, attempt[c], options[c].Retries)
       THEN /\ pc' = [pc EXCEPT ![c] = "backoff"]
            /\ UNCHANGED <<ret, waits>>
       ELSE /\ pc' = [pc EXCEPT ![c] = "done"]
            /\ waits' = [waits EXCEPT ![c] = Append(@, backoff(attempt[c]))]
            /\ ret' = [ret EXCEPT ![c] = [body |-> NilBody, err |-> err[c]]]
    /\ UNCHANGED <<env, args, attempt, scope, locals, respOpen, log, debugOut>>

\* OnError with a retry budget of its own: the attempt index given to
\* shouldRetry counts only the earlier attempts that failed with an error.
OnError_OwnBudget(c) ==
    /\ pc[c] = "check"
    /\ err[c] # NoErr
    /\ lastErr' = [lastErr EXCEPT ![c] = err[c]]
    /\ IF shouldRetry(err[c], 0,
                      Cardinality({i \in 1 .. Len(log[c]) - 1 : log[c][i].err # NoErr}),
                      options[c].Retries)
       THEN /\ pc' = [pc EXCEPT ![c] = "backoff"]
            /\ ret' = ret
       ELSE /\ pc' = [pc EXCEPT ![c] = "done"]
            /\ ret' = [ret EXCEPT ![c] = [body |-> NilBody, err |-> err[c]]]
    /\ UNCHANGED <<env, args, attempt, scope, locals, respOpen, waits, log, debugOut>>

\* if err != nil: record it, then back off or return it.
OnError(c) ==
    /\ pc[c] = "check"
    /\ err[c] # NoErr
    /\ lastErr' = [lastErr EXCEPT ![c] = err[c]]
    /\ IF shouldRetry(err[c], 0, attempt[c], options[c].Retries)
       THEN /\ pc' = [pc EXCEPT ![c] = "backoff"]
            /\ ret' = ret
       ELSE /\ pc' = [pc EXCEPT ![c] = "done"]
            /\ ret' = [ret EXCEPT ![c] = [body |-> NilBody, err |-> err[c]]]
    /\ UNCHANGED <<env, args, attempt, scope, locals, respOpen, waits, log, debugOut>>

\* HandleResponse called right after attemptRequest, before cancel().
HandleResponse_BeforeCancel(c) ==
    /\ pc[c] = "cancel"
    /\ err[c] = NoErr
    /\ \E h \in handleResponse(resp[c]) :
         /\ body' = [body EXCEPT ![c] = h.body]
         /\ status' = [status EXCEPT ![c] = h.status]
         /\ readErr' = [readErr EXCEPT ![c] = h.err]
    /\ respOpen' = [respOpen EXCEPT ![c] = FALSE]
    /\ pc' = [pc EXCEPT ![c] = "handled"]
    /\ UNCHANGED <<env, args, attempt, lastErr, scope, resp, err, waits, log,
                   debugOut, ret>>

\* HandleResponse with the body closed only after a successful read.
HandleResponse_CloseOnSuccess(c) ==
    /\ pc[c] = "check"
    /\ err[c] = NoErr
    /\ \E h \in handleResponse(resp[c]) :
         /\ body' = [body EXCEPT ![c] = h.body]
         /\ status' = [status EXCEPT ![c] = h.status]
         /\ readErr' = [readErr EXCEPT ![c] = h.err]
         /\ respOpen' = [respOpen EXCEPT ![c] = (h.err # NoErr)]
    /\ pc' = [pc EXCEPT ![c] = "handled"]
    /\ UNCHANGED <<env, args, attempt, lastErr, scope, resp, err, waits, log,
                   debugOut, ret>>

\* body, status, readErr := handleResponse(resp): reads and closes the body.
HandleResponse(c) ==
    /\ pc[c] = "check"
    /\ err[c] = NoErr
    /\ \E h \in handleResponse(resp[c]) :
         /\ body' = [body EXCEPT ![c] = h.body]
         /\ status' = [status EXCEPT ![c] = h.status]
         /\ readErr' = [readErr EXCEPT ![c] = h.err]
    /\ respOpen' = [respOpen EXCEPT ![c] = FALSE]
    /\ pc' = [pc EXCEPT ![c] = "handled"]
    /\ UNCHANGED <<env, args, attempt, lastErr, scope, resp, err, waits, log,
                   debugOut, ret>>

\* AfterHandle with the debug branch taken before the retry decision: with
\* Debug set, the response is logged and returned whatever its status.
AfterHandle_DebugReturnsFirst(c) ==
    /\ pc[c] = "handled"
    /\ IF readErr[c] # NoErr
       THEN /\ ret' = [ret EXCEPT ![c] = [body |-> NilBody, err |-> readErr[c]]]
            /\ pc' = [pc EXCEPT ![c] = "done"]
            /\ UNCHANGED <<lastErr, debugOut>>
       ELSE IF ~options[c].Debug
               /\ shouldRetry(NoErr, status[c], attempt[c], options[c].Retries)
       THEN /\ lastErr' = [lastErr EXCEPT ![c] = ServerError(resp[c].StatusCode)]
            /\ pc' = [pc EXCEPT ![c] = "backoff"]
            /\ UNCHANGED <<ret, debugOut>>
       ELSE /\ debugOut' = [debugOut EXCEPT ![c] =
                               @ \o logResponse(resp[c], body[c], options[c])]
            /\ ret' = [ret EXCEPT ![c] = [body |-> body[c], err |-> NoErr]]
            /\ pc' = [pc EXCEPT ![c] = "done"]
            /\ UNCHANGED lastErr
    /\ UNCHANGED <<env, args, attempt, scope, locals, respOpen, waits, log>>

\* AfterHandle with the status classified before the read error is looked at.
AfterHandle_StatusFirst(c) ==
    /\ pc[c] = "handled"
    /\ IF shouldRetry(NoErr, status[c], attempt[c], options[c].Retries)
       THEN /\ lastErr' = [lastErr EXCEPT ![c] = ServerError(resp[c].StatusCode)]
            /\ pc' = [pc EXCEPT ![c] = "backoff"]
            /\ UNCHANGED <<ret, debugOut>>
       ELSE IF readErr[c] # NoErr
       THEN /\ ret' = [ret EXCEPT ![c] = [body |-> NilBody, err |-> readErr[c]]]
            /\ pc' = [pc EXCEPT ![c] = "done"]
            /\ UNCHANGED <<lastErr, debugOut>>
       ELSE /\ debugOut' = [debugOut EXCEPT ![c] =
                               @ \o logResponse(resp[c], body[c], options[c])]
            /\ ret' = [ret EXCEPT ![c] = [body |-> body[c], err |-> NoErr]]
            /\ pc' = [pc EXCEPT ![c] = "done"]
            /\ UNCHANGED lastErr
    /\ UNCHANGED <<env, args, attempt, scope, locals, respOpen, waits, log>>

\* AfterHandle with logResponse called as soon as the body is read, before
\* the retry decision.
AfterHandle_LogsEveryResponse(c) ==
    /\ pc[c] = "handled"
    /\ IF readErr[c] # NoErr
       THEN /\ ret' = [ret EXCEPT ![c] = [body |-> NilBody, err |-> readErr[c]]]
            /\ pc' = [pc EXCEPT ![c] = "done"]
            /\ UNCHANGED <<lastErr, debugOut>>
       ELSE /\ debugOut' = [debugOut EXCEPT ![c] =
                               @ \o logResponse(resp[c], body[c], options[c])]
            /\ IF shouldRetry(NoErr, status[c], attempt[c], options[c].Retries)
               THEN /\ lastErr' = [lastErr EXCEPT ![c] = ServerError(resp[c].StatusCode)]
                    /\ pc' = [pc EXCEPT ![c] = "backoff"]
                    /\ UNCHANGED ret
               ELSE /\ ret' = [ret EXCEPT ![c] = [body |-> body[c], err |-> NoErr]]
                    /\ pc' = [pc EXCEPT ![c] = "done"]
                    /\ UNCHANGED lastErr
    /\ UNCHANGED <<env, args, attempt, scope, locals, respOpen, waits, log>>

\* AfterHandle returning the recorded last error beside the body.
AfterHandle_ReturnsLastErr(c) ==
    /\ pc[c] = "handled"
    /\ IF readErr[c] # NoErr
       THEN /\ ret' = [ret EXCEPT ![c] = [body |-> NilBody, err |-> readErr[c]]]
            /\ pc' = [pc EXCEPT ![c] = "done"]
            /\ UNCHANGED <<lastErr, debugOut>>
       ELSE IF shouldRetry(NoErr, status[c], attempt[c], options[c].Retries)
       THEN /\ lastErr' = [lastErr EXCEPT ![c] = ServerError(resp[c].StatusCode)]
            /\ pc' = [pc EXCEPT ![c] = "backoff"]
            /\ UNCHANGED <<ret, debugOut>>
       ELSE /\ debugOut' = [debugOut EXCEPT ![c] =
                               @ \o logResponse(resp[c], body[c], options[c])]
            /\ ret' = [ret EXCEPT ![c] = [body |-> body[c], err |-> lastErr[c]]]
            /\ pc' = [pc EXCEPT ![c] = "done"]
            /\ UNCHANGED lastErr
    /\ UNCHANGED <<env, args, attempt, scope, locals, respOpen, waits, log>>

\* The rest of the loop body: return the read error, or back off on a
\* retryable status, or log and return the body.
AfterHandle(c) ==
    /\ pc[c] = "handled"
    /\ IF readErr[c] # NoErr
       THEN /\ ret' = [ret EXCEPT ![c] = [body |-> NilBody, err |-> readErr[c]]]
            /\ pc' = [pc EXCEPT ![c] = "done"]
            /\ UNCHANGED <<lastErr, debugOut>>
       ELSE IF shouldRetry(NoErr, status[c], attempt[c], options[c].Retries)
       THEN /\ lastErr' = [lastErr EXCEPT ![c] = ServerError(resp[c].StatusCode)]
            /\ pc' = [pc EXCEPT ![c] = "backoff"]
            /\ UNCHANGED <<ret, debugOut>>
       ELSE /\ debugOut' = [debugOut EXCEPT ![c] =
                               @ \o logResponse(resp[c], body[c], options[c])]
            /\ ret' = [ret EXCEPT ![c] = [body |-> body[c], err |-> NoErr]]
            /\ pc' = [pc EXCEPT ![c] = "done"]
            /\ UNCHANGED lastErr
    /\ UNCHANGED <<env, args, attempt, scope, locals, respOpen, waits, log>>

\* Backoff with the attempt counter held in a package variable that every
\* running call shares.
Backoff_SharedCounter(c) ==
    /\ pc[c] = "backoff"
    /\ waits' = [waits EXCEPT ![c] = Append(@, backoff(attempt[c]))]
    /\ attempt' = [d \in Callers |-> IF d = c \/ pc[d] \notin {"idle", "done"}
                                     THEN attempt[d] + 1 ELSE attempt[d]]
    /\ pc' = [pc EXCEPT ![c] = "loop"]
    /\ UNCHANGED <<env, args, lastErr, scope, locals, respOpen, log, debugOut, ret>>

\* backoff(attempt); continue
Backoff(c) ==
    /\ pc[c] = "backoff"
    /\ waits' = [waits EXCEPT ![c] = Append(@, backoff(attempt[c]))]
    /\ attempt' = [attempt EXCEPT ![c] = @ + 1]
    /\ pc' = [pc EXCEPT ![c] = "loop"]
    /\ UNCHANGED <<env, args, lastErr, scope, locals, respOpen, log, debugOut, ret>>

\* The caller has taken the result; it may call again.
Finish(c) ==
    /\ pc[c] = "done"
    /\ pc' = [pc EXCEPT ![c] = "idle"]
    /\ method' = [method EXCEPT ![c] = "nil"]
    /\ rawURL' = [rawURL EXCEPT ![c] = NoRawURL]
    /\ timeout' = [timeout EXCEPT ![c] = 0]
    /\ ctxLeft' = [ctxLeft EXCEPT ![c] = 0]
    /\ options' = [options EXCEPT ![c] = NoOptions]
    /\ attempt' = [attempt EXCEPT ![c] = 0]
    /\ lastErr' = [lastErr EXCEPT ![c] = NoErr]
    /\ ctx' = [ctx EXCEPT ![c] = "none"]
    /\ resp' = [resp EXCEPT ![c] = NoResp]
    /\ err' = [err EXCEPT ![c] = NoErr]
    /\ body' = [body EXCEPT ![c] = NilBody]
    /\ status' = [status EXCEPT ![c] = 0]
    /\ readErr' = [readErr EXCEPT ![c] = NoErr]
    /\ waits' = [waits EXCEPT ![c] = << >>]
    /\ log' = [log EXCEPT ![c] = << >>]
    /\ debugOut' = [debugOut EXCEPT ![c] = << >>]
    /\ ret' = [ret EXCEPT ![c] = NoRet]
    /\ UNCHANGED <<env, respOpen>>

Next ==
    \E c \in Callers :
        \/ Call(c)
        \/ LoopEnter(c)
        \/ LoopExit(c)
        \/ AttemptRequest(c)
        \/ Cancel(c)
        \/ OnError(c)
        \/ HandleResponse(c)
        \/ AfterHandle(c)
        \/ Backoff(c)
        \/ Finish(c)

Spec == Init /\ [][Next]_vars

\* One caller, over the calls that vary headers, query and body.
InitRequest ==
    /\ active = {"c1"}
    /\ workload = "request"
    /\ InitCall

SpecRequest == InitRequest /\ [][Next]_vars

\* Two goroutines calling at the same time, in every interleaving.
InitConcurrent ==
    /\ active = Callers
    /\ workload = "concurrent"
    /\ InitCall

SpecConcurrent == InitConcurrent /\ [][Next]_vars

\* A step of doRequest itself: everything between a call's entry and return.
Proceed(c) ==
    \/ LoopEnter(c)
    \/ LoopExit(c)
    \/ AttemptRequest(c)
    \/ Cancel(c)
    \/ OnError(c)
    \/ HandleResponse(c)
    \/ AfterHandle(c)
    \/ Backoff(c)

\* Every attempt, body read and sleep of a running call ends: client.Do is
\* bounded by the attempt's timeout, time.Sleep by its duration.
SpecFair == Init /\ [][Next]_vars /\ \A c \in Callers : WF_vars(Proceed(c))

\* ------------------------------------------------------- claim vocabulary

\* The number of attempts (calls of attemptRequest) made so far.
Attempts(c) == Len(log[c])

\* The outcome of the latest attempt.
Last(c) == log[c][Len(log[c])]

\* The errors client.Do returns.
TransportErrors == {UrlError(m) : m \in ValidMethods}

\* The errors of building the request: url.Parse, json.Marshal,
\* http.NewRequestWithContext.
InputErrors == {UrlError("parse"), MarshalError, InvalidMethodError}

EveryAttemptFailedInTransport(c) ==
    \A i \in 1 .. Len(log[c]) : log[c][i].err \in TransportErrors

GotResponse(c) == Len(log[c]) > 0 /\ Last(c).err = NoErr

\* ------------------------------------------------------------------ claims

\* C1: with maxRetries = N >= 0 and a transport that fails on every attempt,
\* a finished call has made exactly N+1 attempts and returns an error.
C1_FailingTransportMakesNPlus1Attempts ==
    \A c \in Callers :
        (pc[c] = "done" /\ options[c].Retries >= 0 /\ EveryAttemptFailedInTransport(c))
        => /\ Attempts(c) = options[c].Retries + 1
           /\ ret[c].err # NoErr
           /\ ret[c].body = NilBody

C1_Witness ==
    \E c \in Callers :
        /\ pc[c] = "done"
        /\ options[c].Retries = 2
        /\ Attempts(c) = 3
        /\ EveryAttemptFailedInTransport(c)

\* C2: after a 5xx response whose body was read, the call backs off (and the
\* loop then admits another attempt) while attempt < maxRetries, and with
\* attempt = maxRetries it returns that response's body with a nil error.
C2_ServerErrorRetriedThenReturned ==
    \A c \in Callers :
        (GotResponse(c) /\ Last(c).status \in 500 .. 599 /\ readErr[c] = NoErr)
        => /\ (pc[c] \in {"backoff", "done"} /\ attempt[c] < options[c].Retries)
                 => pc[c] = "backoff"
           /\ (pc[c] \in {"backoff", "done"} /\ attempt[c] >= options[c].Retries)
                 => /\ pc[c] = "done"
                    /\ attempt[c] = options[c].Retries
                    /\ ret[c] = [body |-> resp[c].Body, err |-> NoErr]
           /\ pc[c] = "loop" => attempt[c] <= options[c].Retries

C2_Witness ==
    \E c \in Callers :
        /\ GotResponse(c) /\ Last(c).status = 599 /\ readErr[c] = NoErr
        /\ Attempts(c) = 2 /\ log[c][1].status = 500
        /\ pc[c] = "done"
        /\ ret[c] = [body |-> "b2", err |-> NoErr]

\* C3: a response with status in 200..499 whose body was read is returned at
\* once: the call is finished with that body and a nil error, and no backoff
\* follows the attempt.
C3_NonServerErrorReturnedAtOnce ==
    \A c \in Callers :
        (/\ GotResponse(c) /\ Last(c).status \in 200 .. 499
         /\ pc[c] \notin {"cancel", "check", "handled"}
         /\ readErr[c] = NoErr)
        => /\ pc[c] = "done"
           /\ ret[c] = [body |-> resp[c].Body, err |-> NoErr]
           /\ Len(waits[c]) = Attempts(c) - 1
           /\ Attempts(c) = attempt[c] + 1

C3_Witness ==
    \E c \in Callers :
        /\ GotResponse(c) /\ Last(c).status = 499
        /\ pc[c] = "done"
        /\ attempt[c] = 1 /\ options[c].Retries = 2
        /\ ret[c] = [body |-> "b1", err |-> NoErr]

\* C4: when every attempt of a call with maxRetries >= 0 ended in a transport
\* error, the call fails with the "request failed after retries" error
\* wrapping the last attempt's transport error.
C4_ExhaustionReturnsAggregatedError ==
    \A c \in Callers :
        (pc[c] = "done" /\ options[c].Retries >= 0 /\ EveryAttemptFailedInTransport(c))
        => ret[c].err = FailedAfterRetries(Last(c).err)

\* C5: an attempt that fails to parse the URL, to serialize the body or to
\* construct the request ends the call: that error is returned after this
\* one attempt, with no backoff.
C5_InputErrorsAreFatal ==
    \A c \in Callers :
        (/\ Len(log[c]) > 0 /\ Last(c).err \in InputErrors
         /\ pc[c] \notin {"cancel", "check"})
        => /\ pc[c] = "done"
           /\ ret[c] = [body |-> NilBody, err |-> Last(c).err]
           /\ Attempts(c) = 1
           /\ waits[c] = << >>

\* C6: what a successful call returns holds the body and the status code of
\* the final attempt.
C6_OutcomeCarriesStatus ==
    \A c \in Callers :
        (pc[c] = "done" /\ ret[c].err = NoErr)
        => /\ ret[c].body = body[c]
           /\ "status" \in DOMAIN ret[c]
           /\ ret[c]["status"] = status[c]

\* C7: the k-th wait of a call (the one between attempt k-1 and attempt k) is
\* 300ms * k, whatever caused the retry; one wait per finished attempt index,
\* so the waits are 300, 600, 900, ... and strictly increasing.
C7_BackoffIsLinear ==
    \A c \in Callers :
        /\ Len(waits[c]) = attempt[c]
        /\ \A k \in 1 .. Len(waits[c]) : waits[c][k] = 300 * k
        /\ \A k \in 2 .. Len(waits[c]) : waits[c][k] > waits[c][k - 1]

C7_Witness ==
    \E c \in Callers :
        /\ waits[c] = <<300, 600>>
        /\ log[c][1].err \in TransportErrors
        /\ log[c][2].err = NoErr /\ log[c][2].status \in 500 .. 599

\* C8: with maxRetries = 2 and answers 503, 503, 200, the call makes exactly
\* three attempts, waits 300ms and then 600ms, and returns the body of the
\* 200 response with a nil error.
C8_TwoRetriesThenSuccess ==
    \A c \in Callers :
        (/\ pc[c] = "done" /\ options[c].Retries = 2
         /\ Attempts(c) >= 3
         /\ \A i \in 1 .. 3 : log[c][i].err = NoErr
         /\ log[c][1].status = 503 /\ log[c][2].status = 503 /\ log[c][3].status = 200
         /\ readErr[c] = NoErr)
        => /\ Attempts(c) = 3
           /\ waits[c] = <<300, 600>>
           /\ resp[c].StatusCode = 200
           /\ ret[c] = [body |-> resp[c].Body, err |-> NoErr]

C8_Witness ==
    \E c \in Callers :
        /\ pc[c] = "done" /\ options[c].Retries = 2
        /\ Attempts(c) = 3
        /\ \A i \in 1 .. 3 : log[c][i].err = NoErr
        /\ log[c][1].status = 503 /\ log[c][2].status = 503 /\ log[c][3].status = 200
        /\ ret[c] = [body |-> "b1", err |-> NoErr]

\* C9: when reading a response body fails, the call is finished at once: it
\* returns a nil body and the read error, with no backoff after that attempt,
\* whatever the status and however many retries remain.
C9_ReadErrorIsFatal ==
    \A c \in Callers :
        (readErr[c] # NoErr /\ pc[c] # "handled")
        => /\ pc[c] = "done"
           /\ ret[c] = [body |-> NilBody, err |-> readErr[c]]
           /\ Len(waits[c]) = attempt[c]
           /\ Attempts(c) = attempt[c] + 1

C9_Witness ==
    \E c \in Callers :
        /\ readErr[c] # NoErr /\ pc[c] = "done"
        /\ status[c] = 503
        /\ attempt[c] < options[c].Retries

\* C10: an attempt's error leads to a backoff exactly when attempt <
\* maxRetries and the error is of the net.Error class; otherwise the call is
\* finished at once, returning that same error, with no backoff after it.
C10_ErrorRetriedOnlyIfNetClass ==
    \A c \in Callers :
        (Len(log[c]) > 0 /\ Last(c).err # NoErr /\ pc[c] \in {"backoff", "done"})
        => IF attempt[c] < options[c].Retries /\ Last(c).err.type = "*url.Error"
           THEN pc[c] = "backoff"
           ELSE /\ pc[c] = "done"
                /\ ret[c] = [body |-> NilBody, err |-> Last(c).err]
                /\ Len(waits[c]) = attempt[c]

C10_Witness ==
    \E c \in Callers :
        /\ Len(log[c]) > 0 /\ Last(c).err # NoErr
        /\ Last(c).err.type # "*url.Error"
        /\ attempt[c] < options[c].Retries
        /\ pc[c] = "done"

\* C11: a response body is open only between the send that returned it and
\* the read that follows: it is closed before the backoff, before the next
\* attempt and before the call returns, on every path.  As no body is open
\* when an attempt is sent, a call never holds two open bodies.
C11_ResponseBodyClosedPerAttempt ==
    \A c \in Callers :
        /\ respOpen[c] => (pc[c] \in {"cancel", "check"} /\ GotResponse(c))
        /\ pc[c] \in {"handled", "backoff", "loop", "attempt", "done", "idle"}
              => ~respOpen[c]

C11_Witness ==
    \E c \in Callers :
        /\ pc[c] = "done" /\ GotResponse(c)
        /\ readErr[c] # NoErr
        /\ ~respOpen[c]

\* C12: every attempt starts with a live timeout scope of its own that has
\* the full configured duration (options.Timeout, or 10s when unset); the
\* scope is live only while the attempt is sent and until cancel(), so none
\* is live during the rest of the iteration, the backoff or after the return.
C12_TimeoutScopePerAttempt ==
    \A c \in Callers :
        /\ pc[c] = "attempt"
              => /\ ctx[c] = "live"
                 /\ ctxLeft[c] = timeout[c]
                 /\ timeout[c] = IF options[c].Timeout = 0 THEN 10000
                                 ELSE options[c].Timeout
        /\ ctx[c] = "live" => pc[c] \in {"attempt", "cancel"}

C12_Witness ==
    \E c \in Callers :
        /\ pc[c] = "attempt" /\ attempt[c] = 1
        /\ options[c].Timeout = 5000
        /\ ctx[c] = "live" /\ ctxLeft[c] = 5000

\* One sequence is an initial part of the other.
IsPrefix(s, t) == Len(s) <= Len(t) /\ SubSeq(t, 1, Len(s)) = s

\* Two calls that were given the same answers by the network as far as each
\* got (the same outcomes, and the same latest response when they made the
\* same number of attempts), every body read having succeeded.
SameAnswers(c, d) ==
    /\ IsPrefix(log[c], log[d]) \/ IsPrefix(log[d], log[c])
    /\ Len(log[c]) = Len(log[d]) => resp[c] = resp[d]
    /\ readErr[c] = NoErr /\ readErr[d] = NoErr

\* C13: two finished calls with the same method, URL and options except that
\* one has Debug set, given the same answers by the network, made the same
\* attempts, slept the same backoffs and returned the same body and error.
C13_DebugDoesNotInterfere ==
    \A c, d \in Callers :
        (/\ pc[c] = "done" /\ pc[d] = "done"
         /\ options[c].Debug /\ ~options[d].Debug
         /\ method[c] = method[d] /\ rawURL[c] = rawURL[d]
         /\ [options[c] EXCEPT !.Debug = FALSE] = options[d]
         /\ SameAnswers(c, d))
        => /\ log[c] = log[d]
           /\ waits[c] = waits[d]
           /\ ret[c] = ret[d]

C13_Witness ==
    \E c, d \in Callers :
        /\ pc[c] = "done" /\ pc[d] = "done"
        /\ options[c].Debug /\ ~options[d].Debug
        /\ [options[c] EXCEPT !.Debug = FALSE] = options[d]
        /\ log[c] = log[d] /\ Len(log[c]) = 2
        /\ readErr[c] = NoErr /\ readErr[d] = NoErr
        /\ Len(debugOut[c]) = 1 /\ debugOut[d] = << >>
        /\ ret[c] = ret[d]

\* The attempts of a call whose request reached client.Do.
SentAttempts(c) == {i \in DOMAIN log[c] : log[c][i].sent # NoSent}

\* The spellings under which a caller may give each header name.
Spellings(name) ==
    CASE name = "Content-Type" -> {"Content-Type", "content-type"}
      [] name = "X-Tag" -> {"X-Tag", "x-tag"}

HeaderNames == {"Content-Type", "X-Tag"}

\* s occurs in t as a run of adjacent elements, in order.
IsBlockOf(s, t) ==
    \E i \in 0 .. Len(t) - Len(s) : SubSeq(t, i + 1, i + Len(s)) = s

RECURSIVE TotalLen(_, _)
TotalLen(kv, K) ==
    IF K = {} THEN 0
    ELSE LET k == CHOOSE x \in K : TRUE IN Len(kv[k]) + TotalLen(kv, K \ {k})

\* The header name carries exactly the caller's values for it: every
\* spelling's values in their order, and nothing else.
KeepsCallerValues(h, kv, name) ==
    LET given == Spellings(name) \cap DOMAIN kv IN
    IF given = {} THEN name \notin DOMAIN h
    ELSE /\ name \in DOMAIN h
         /\ \A k \in given : IsBlockOf(kv[k], h[name])
         /\ Len(h[name]) = TotalLen(kv, given)

\* C14: in every request sent, when options.Body is non-nil the Content-Type
\* header is exactly the one value application/json whatever the caller
\* supplied for it, and every other header carries all the caller's values
\* for it in order; when options.Body is nil every header, Content-Type
\* included, carries exactly the caller's values.
C14_ContentTypeForcedWithBody ==
    \A c \in Callers : \A i \in SentAttempts(c) :
        LET h == log[c][i].sent.header
            kv == options[c].Header.kv
        IN /\ DOMAIN h \subseteq HeaderNames
           /\ KeepsCallerValues(h, kv, "X-Tag")
           /\ IF options[c].Body # NilPayload
              THEN "Content-Type" \in DOMAIN h /\ h["Content-Type"] = <<"application/json">>
              ELSE KeepsCallerValues(h, kv, "Content-Type")

C14_Witness ==
    \E c \in Callers : \E i \in SentAttempts(c) :
        /\ options[c].Body = "struct"
        /\ DOMAIN options[c].Header.kv = {"Content-Type", "content-type", "X-Tag", "x-tag"}
        /\ log[c][i].sent.header["Content-Type"] = <<"application/json">>
        /\ log[c][i].sent.header["X-Tag"] = <<"3", "1", "2">>

\* The values, still encoded, that a raw query gives for key k, in order.
RawValues(rawQuery, k) ==
    LET ForKey(p) == p.k = k
        pairs == SelectSeq(rawQuery, ForKey)
    IN [i \in 1 .. Len(pairs) |-> pairs[i].v]

RawKeys(rawQuery) == {rawQuery[i].k : i \in DOMAIN rawQuery}

\* Two lists of encoded values that decode alike.
SameValues(vs, ws) ==
    /\ Len(vs) = Len(ws)
    /\ \A i \in 1 .. Len(vs) : QueryUnescape(vs[i]) = QueryUnescape(ws[i])

\* C15: in the URL of every request sent, each key of options.Query has
\* exactly the one value options.Query gives it, and each key of the base
\* URL's query that options.Query does not name has its original values.
C15_QueryMerged ==
    \A c \in Callers : \A i \in SentAttempts(c) :
        LET final == log[c][i].sent.url.rawQuery
            base == rawURL[c].rawQuery
            kv == options[c].Query.kv
        IN /\ \A k \in DOMAIN kv :
                 /\ Len(RawValues(final, k)) = 1
                 /\ QueryUnescape(RawValues(final, k)[1]) = kv[k]
           /\ \A k \in RawKeys(base) \ DOMAIN kv :
                 SameValues(RawValues(final, k), RawValues(base, k))

\* The state of the attempt loop: Attempting from the loop head to the end of
\* the iteration's decision, RetryPending while backing off, Success or Failed
\* once the call has returned; Exhausted is the loop head with the loop
\* condition false.
PhaseOf(p, a, o, r) ==
    CASE p = "idle" -> "Idle"
      [] p = "loop" -> IF a <= o.Retries THEN "Attempting" ELSE "Exhausted"
      [] p \in {"attempt", "cancel", "check", "handled"} -> "Attempting"
      [] p = "backoff" -> "RetryPending"
      [] p = "done" -> IF r.err = NoErr THEN "Success" ELSE "Failed"

Phase(c) == PhaseOf(pc[c], attempt[c], options[c], ret[c])

PhaseChanges ==
    {<<"Idle", "Attempting">>, <<"Attempting", "Attempting">>,
     <<"Attempting", "Success">>, <<"Attempting", "RetryPending">>,
     <<"Attempting", "Failed">>, <<"RetryPending", "Attempting">>,
     <<"Success", "Idle">>, <<"Failed", "Idle">>}

\* A step of caller c, in a call with maxRetries >= 0, follows the machine.
FollowsMachine(c) ==
    LET maxRetries == IF pc[c] = "idle" THEN options'[c].Retries ELSE options[c].Retries
        from == Phase(c)
        to == PhaseOf(pc'[c], attempt'[c], options'[c], ret'[c])
    IN (pc'[c] # pc[c] /\ maxRetries >= 0) =>
          /\ <<from, to>> \in PhaseChanges
          /\ IF from = "RetryPending"
             THEN /\ Len(waits'[c]) = Len(waits[c]) + 1
                  /\ log'[c] = log[c]
             ELSE IF from \in {"Success", "Failed"}
             THEN waits'[c] = << >> /\ log'[c] = << >> /\ pc'[c] = "idle"
             ELSE /\ waits'[c] = waits[c]
                  /\ Len(log'[c]) \in {Len(log[c]), Len(log[c]) + 1}

Running(c) == pc[c] \notin {"idle", "done"} /\ options[c].Retries >= 0

Returned(c) == pc[c] = "done" /\ Phase(c) \in {"Success", "Failed"}

\* C16: a call with maxRetries >= 0 moves Idle -> Attempting -> Success,
\* RetryPending or Failed; RetryPending is left only for Attempting and by
\* exactly one backoff; after Success or Failed nothing of the call happens
\* (no attempt, no backoff); and, every attempt, read and sleep ending, a
\* running call eventually returns with Success or Failed.
C16_AttemptLoopStateMachine ==
    /\ [][\A c \in Callers : FollowsMachine(c)]_vars
    /\ \A c \in Callers : Running(c) ~> Returned(c)

C16_Witness ==
    \E c \in Callers :
        /\ Phase(c) = "Success"
        /\ options[c].Retries = 2
        /\ Len(waits[c]) = 2
        /\ Attempts(c) = 3

\* The most attempts a call with this maxRetries can make.
AttemptBudget(maxRetries) == IF maxRetries < 0 THEN 0 ELSE maxRetries + 1

\* C17 as stated: every iteration performs one HTTP send, and a finished
\* call has made maxRetries + 1 attempts.
C17_AttemptsAreRetriesPlusOne ==
    \A c \in Callers :
        /\ \A i \in DOMAIN log[c] : log[c][i].sent # NoSent
        /\ pc[c] = "done" => Attempts(c) = options[c].Retries + 1

\* C17, amended: every iteration performs at most one HTTP send, exactly one
\* unless building the URL, the body or the request failed; a call makes at
\* most maxRetries + 1 attempts (none when maxRetries < 0), attempt k + 1
\* only after k backoffs, and a finished call with maxRetries >= 0 has made
\* at least one; it has made all maxRetries + 1 only if every attempt before
\* the last was retried.
C17_AtMostRetriesPlusOneAttempts ==
    \A c \in Callers :
        /\ \A i \in DOMAIN log[c] : log[c][i].sent = NoSent <=> log[c][i].err \in InputErrors
        /\ Attempts(c) <= AttemptBudget(options[c].Retries)
        /\ Attempts(c) \in {Len(waits[c]), Len(waits[c]) + 1}
        /\ pc[c] = "done" =>
              /\ options[c].Retries >= 0 => Attempts(c) >= 1
              /\ Attempts(c) = Len(waits[c]) + (IF options[c].Retries >= 0 THEN 1 ELSE 0)
              /\ \A i \in 1 .. Attempts(c) - 1 :
                    shouldRetry(log[c][i].err, log[c][i].status, i - 1, options[c].Retries)

C17_Witness ==
    \E c \in Callers :
        /\ pc[c] = "done"
        /\ options[c].Retries = 2
        /\ Attempts(c) = 1
        /\ Last(c).sent # NoSent
        /\ ret[c].err = NoErr

\* What the call was given is what every attempt is built from.
BuiltFromInputs(c, sent) ==
    /\ sent.method = method[c]
    /\ sent.url.addr = rawURL[c].addr
    /\ sent.body = (IF options[c].Body = NilPayload THEN NoReader.data
                    ELSE jsonMarshal(options[c].Body))

\* C18: every attempt of one call sends the same request (the same method,
\* final URL, headers and body), built from the call's inputs, the body
\* complete.
C18_SameRequestEveryAttempt ==
    \A c \in Callers : \A i, j \in SentAttempts(c) :
        /\ BuiltFromInputs(c, log[c][i].sent)
        /\ log[c][i].sent = log[c][j].sent

\* C19: a call emits at most one debug record, and only with Debug set, on
\* returning a response: the record is that of the returned response, the
\* last attempt's, which is not a 5xx or is the 5xx of attempt maxRetries;
\* while the call is running, and on a call that returns an error, nothing
\* has been emitted.
C19_DebugRecordOnlyForReturnedResponse ==
    \A c \in Callers :
        /\ Len(debugOut[c]) <= 1
        /\ debugOut[c] # << >> =>
              /\ options[c].Debug
              /\ pc[c] = "done"
              /\ ret[c].err = NoErr
              /\ GotResponse(c)
              /\ debugOut[c][1].status = Last(c).status
              /\ debugOut[c][1].body = ret[c].body
              /\ (Last(c).status \in 500 .. 599) => Attempts(c) = options[c].Retries + 1
        /\ (pc[c] = "done" /\ options[c].Debug /\ ret[c].err = NoErr) =>
              Len(debugOut[c]) = 1

C19_Witness ==
    \E c \in Callers :
        /\ pc[c] = "done"
        /\ options[c].Debug
        /\ options[c].Retries = 1
        /\ Attempts(c) = 2
        /\ log[c][1].status = 503
        /\ Last(c).status = 500
        /\ debugOut[c] = << [status |-> 500, body |-> ret[c].body] >>

\* Everything one call holds.
CallState(c) ==
    <<pc[c], method[c], rawURL[c], options[c], attempt[c], lastErr[c], timeout[c],
      ctx[c], ctxLeft[c], resp[c], err[c], respOpen[c], body[c], status[c],
      readErr[c], waits[c], log[c], debugOut[c], ret[c]>>

\* A step changes what one call holds and nothing of any other call.
StepsOneCall ==
    \A c, d \in Callers : (c # d /\ CallState(c)' # CallState(c)) => CallState(d)' = CallState(d)

\* Two calls were given the same inputs and the same answers by the network.
SameCall(c, d) ==
    /\ method[c] = method[d] /\ rawURL[c] = rawURL[d] /\ options[c] = options[d]
    /\ log[c] = log[d] /\ resp[c] = resp[d] /\ readErr[c] = readErr[d]

\* What a call run alone holds once it has returned.
AsWhenAlone(c) ==
    /\ attempt[c] = Len(waits[c])
    /\ waits[c] = [i \in 1 .. Len(waits[c]) |-> i * BackoffUnit]
    /\ Attempts(c) = attempt[c] + (IF options[c].Retries >= 0 THEN 1 ELSE 0)
    /\ Attempts(c) <= AttemptBudget(options[c].Retries)
    /\ lastErr[c] \in {NoErr} \cup {log[c][i].err : i \in DOMAIN log[c]}
                          \cup {ServerError(log[c][i].status) : i \in DOMAIN log[c]}
    /\ ret[c].err \in {NoErr, ReadError, FailedAfterRetries(NoErr)}
                          \cup {log[c][i].err : i \in DOMAIN log[c]}
    /\ ret[c].body \in {NilBody, resp[c].Body}

\* Attempt k + 1 starts only when attempt k is over (its scope released, its
\* body closed) and k backoffs have elapsed.
AttemptsSequential(c) ==
    /\ pc[c] \in {"loop", "attempt"} =>
          /\ Attempts(c) = attempt[c]
          /\ Len(waits[c]) = attempt[c]
          /\ ~respOpen[c]
          /\ pc[c] = "loop" => ctx[c] # "live"
    /\ pc[c] \in {"cancel", "check", "handled", "backoff"} =>
          /\ Attempts(c) = attempt[c] + 1
          /\ Len(waits[c]) = attempt[c]

\* C20: with two callers running doRequest at once, in every interleaving a
\* step of one call changes nothing of the other; two calls given the same
\* inputs and the same answers end with the same attempt counter, last error,
\* backoffs and result, which are those of a call run alone; and within a
\* call attempt k + 1 starts only after attempt k is over and its backoff done.
C20_ConcurrentCallsDoNotInterfere ==
    /\ [][StepsOneCall]_vars
    /\ [](\A c \in Callers : AttemptsSequential(c))
    /\ [](\A c \in Callers : pc[c] = "done" => AsWhenAlone(c))
    /\ [](\A c, d \in Callers :
            (pc[c] = "done" /\ pc[d] = "done" /\ SameCall(c, d)) =>
               /\ attempt[c] = attempt[d]
               /\ lastErr[c] = lastErr[d]
               /\ waits[c] = waits[d]
               /\ ret[c] = ret[d])

C20_Witness ==
    /\ pc["c1"] = "done" /\ pc["c2"] = "done"
    /\ SameCall("c1", "c2")
    /\ options["c1"].Retries = 1
    /\ Attempts("c1") = 2
    /\ waits["c2"] = <<BackoffUnit>>
    /\ ret["c1"].err = NoErr

\* C21: no body read takes place while the attempt's timeout scope is live:
\* when handleResponse is about to run and once it has run the scope has
\* been cancelled, and while a scope is live nothing of its attempt's
\* response has been read.
C21_ScopeCancelledBeforeBodyRead ==
    \A c \in Callers :
        /\ pc[c] \in {"check", "handled"} => ctx[c] = "cancelled" /\ ctxLeft[c] = 0
        /\ ctx[c] = "live" =>
              /\ body[c] = NilBody
              /\ status[c] = 0
              /\ readErr[c] = NoErr

C21_Witness ==
    \E c \in Callers :
        /\ pc[c] = "handled"
        /\ GotResponse(c)
        /\ ctx[c] = "cancelled"
        /\ body[c] = resp[c].Body
        /\ body[c] # NilBody

\* The attempts so far that ended in a retryable transport error, and those
\* that ended in a 5xx response.
FailedInTransport(c) == {i \in DOMAIN log[c] : log[c][i].err \in TransportErrors}

FailedWith5xx(c) ==
    {i \in DOMAIN log[c] : log[c][i].err = NoErr /\ log[c][i].status \in 500 .. 599}

\* C22: one retry budget for both failure kinds: a call with maxRetries =
\* N >= 0 makes at most N + 1 attempts and N backoffs whatever the mix of
\* transport errors and 5xx responses; when an attempt's outcome is decided
\* the attempt index is the number of all earlier attempts, a retry is
\* pending only below index N, and the i-th backoff is that of index i - 1.
C22_RetryBudgetShared ==
    \A c \in Callers :
        (pc[c] # "idle" /\ options[c].Retries >= 0) =>
            /\ Attempts(c) <= options[c].Retries + 1
            /\ Len(waits[c]) <= options[c].Retries
            /\ pc[c] \in {"check", "handled", "backoff", "done"} => attempt[c] = Attempts(c) - 1
            /\ pc[c] = "backoff" => attempt[c] < options[c].Retries
            /\ \A i \in DOMAIN waits[c] : waits[c][i] = backoff(i - 1)

C22_Witness ==
    \E c \in Callers :
        /\ pc[c] = "done"
        /\ options[c].Retries = 2
        /\ Attempts(c) = 3
        /\ 1 \in FailedWith5xx(c)
        /\ 2 \in FailedInTransport(c)
        /\ 3 \in FailedWith5xx(c)
        /\ waits[c] = <<BackoffUnit, 2 * BackoffUnit>>

\* C23 as stated: in every call the number of backoffs is the number of
\* attempts minus one.
C23_BackoffsAreAttemptsMinusOne ==
    \A c \in Callers : pc[c] = "done" => Len(waits[c]) = Attempts(c) - 1

\* C23, amended: a backoff is performed only between two attempts: a call
\* that made at least one attempt returns with one backoff fewer than
\* attempts, a call that made none (maxRetries < 0) with no backoff; while a
\* call runs every backoff so far follows an attempt, and none follows the
\* attempt whose outcome is returned nor attempt maxRetries.
C23_BackoffsOnlyBetweenAttempts ==
    \A c \in Callers :
        /\ pc[c] = "done" =>
              Len(waits[c]) = (IF Attempts(c) = 0 THEN 0 ELSE Attempts(c) - 1)
        /\ Len(waits[c]) <= Attempts(c)
        /\ (Len(waits[c]) = Attempts(c) /\ Attempts(c) > 0) =>
              /\ pc[c] \in {"loop", "attempt"}
              /\ Attempts(c) <= options[c].Retries
        /\ pc[c] = "backoff" => Len(waits[c]) = Attempts(c) - 1 /\ attempt[c] < options[c].Retries

C23_Witness ==
    \E c \in Callers :
        /\ pc[c] = "done"
        /\ options[c].Retries = 2
        /\ Attempts(c) = 3
        /\ Len(waits[c]) = 2
        /\ ret[c].err \in TransportErrors

\* C24: with options.Retries negative the loop body never runs: the call
\* makes no attempt and no backoff, opens no timeout scope, and returns a
\* nil body with "request failed after retries" wrapping a nil last error;
\* with maxRetries >= 0 that post-loop return is never reached.
C24_NegativeRetriesSkipLoop ==
    \A c \in Callers :
        /\ (pc[c] # "idle" /\ options[c].Retries < 0) =>
              /\ pc[c] \in {"loop", "done"}
              /\ Attempts(c) = 0
              /\ waits[c] = << >>
              /\ ctx[c] = "none"
              /\ lastErr[c] = NoErr
              /\ pc[c] = "done" =>
                    ret[c] = [body |-> NilBody, err |-> FailedAfterRetries(NoErr)]
        /\ (pc[c] # "idle" /\ options[c].Retries >= 0) =>
              /\ ret[c].err.type # FailedAfterRetries(NoErr).type
              /\ pc[c] = "loop" => attempt[c] <= options[c].Retries

C24_Witness ==
    \E c \in Callers :
        /\ pc[c] = "done"
        /\ options[c].Retries = -1
        /\ Attempts(c) = 0
        /\ ret[c].err = FailedAfterRetries(NoErr)

\* C25: on every return either the error is non-nil and the body nil, or the
\* error is nil and the body is the whole body read from the response of the
\* last attempt made; an error returned by a call that made attempts is the
\* last attempt's own (its transport or input error, or the error of reading
\* its body), never one recorded from an earlier attempt.
C25_ResultsExclusiveFromLastAttempt ==
    \A c \in Callers :
        pc[c] = "done" =>
            IF ret[c].err = NoErr
            THEN /\ GotResponse(c)
                 /\ readErr[c] = NoErr
                 /\ ret[c].body = resp[c].Body
                 /\ ret[c].body # NilBody
                 /\ resp[c].StatusCode = Last(c).status
            ELSE /\ ret[c].body = NilBody
                 /\ Attempts(c) > 0 =>
                       \/ Last(c).err # NoErr /\ ret[c].err = Last(c).err
                       \/ Last(c).err = NoErr /\ ret[c].err = readErr[c] /\ readErr[c] = ReadError

C25_Witness ==
    \E c \in Callers :
        /\ pc[c] = "done"
        /\ Attempts(c) = 2
        /\ log[c][1].err \in TransportErrors
        /\ lastErr[c] = log[c][1].err
        /\ ret[c] = [body |-> resp[c].Body, err |-> NoErr]
        /\ resp[c].Body \in ResponseBodies

====
